---- MODULE Spec2Model ----
(***************************************************************************)
(* Model of the IncidentList component (DLP Messenger Control frontend):   *)
(* the polling fetch, the payload normalisation, the incident store with   *)
(* its selection set and sort configuration, and the three view states.    *)
(***************************************************************************)
EXTENDS Integers, Sequences, FiniteSets, TLC

\* ------------------------------------------------------------------ bounds
\* fetches issued over one lifetime of the component (mount + ticks + manual)
MaxFetches == 3

\* ------------------------------------------------------------- JS scalars
\* A JavaScript scalar: tag t, numeric payload n, string payload s.
\* Undef doubles as "property absent" (JSON carries no undefined).
Undef == [t |-> "undef", n |-> 0, s |-> ""]
JsNull == [t |-> "null", n |-> 0, s |-> ""]
Num(x) == [t |-> "num", n |-> x, s |-> ""]
Str(x) == [t |-> "str", n |-> 0, s |-> x]

\* ToBoolean as used by the || chains and by `error &&`
Truthy(v) ==
  CASE v.t = "undef" -> FALSE
    [] v.t = "null" -> FALSE
    [] v.t = "num" -> v.n # 0
    [] v.t = "str" -> v.s # ""
    [] OTHER -> TRUE

\* a || b
Or(a, b) == IF Truthy(a) THEN a ELSE b

\* ---------------------------------------------------------- raw payloads
\* every property name the normaliser reads, plus one it does not know
KEYS ==
  {"id", "_id", "timestamp", "date", "created_at", "incident_type", "type",
   "category", "user_id", "user", "employee_id", "platform", "source",
   "channel", "action", "response", "note"}

\* An element of the incident array: an object (own properties f), null,
\* or a primitive (property reads give undefined, spread adds nothing).
Obj(f) == [k |-> "obj", f |-> [x \in KEYS |-> IF x \in DOMAIN f THEN f[x] ELSE Undef]]
NullEntry == [k |-> "null", f |-> [x \in KEYS |-> Undef]]
PrimEntry == [k |-> "prim", f |-> [x \in KEYS |-> Undef]]

\* A property of an object body: its name and either an array of entries
\* or a single non-array value.
ArrProp(key, items) == [key |-> key, isArr |-> TRUE, items |-> items, e |-> PrimEntry]
ValProp(key, e) == [key |-> key, isArr |-> FALSE, items |-> <<>>, e |-> e]

\* response.data: a bare array, an object (properties in insertion order),
\* null, or a primitive.
ArrBody(items) == [k |-> "arr", items |-> items, props |-> <<>>]
ObjBody(props) == [k |-> "obj", items |-> <<>>, props |-> props]
NullBody == [k |-> "null", items |-> <<>>, props |-> <<>>]
PrimBody == [k |-> "prim", items |-> <<>>, props |-> <<>>]

\* values Math.random().toString(36).substr(2, 9) may produce
SynthIds == {"r4nd0m001", "r4nd0m002"}
\* values new Date().toISOString() may produce
NowStamps == {"2024-03-01T00:00:00Z"}

\* data.<key> is truthy and Array.isArray(data.<key>)
HasArray(data, key) ==
  \E i \in 1..Len(data.props) : data.props[i].key = key /\ data.props[i].isArr

GetArray(data, key) ==
  LET i == CHOOSE j \in 1..Len(data.props) :
             data.props[j].key = key /\ data.props[j].isArr
  IN data.props[i].items

\* Object.values(data): own values in insertion order; an array-valued
\* property is itself one value (an object without any of the known names)
ObjectValues(data) ==
  [i \in 1..Len(data.props) |->
     IF data.props[i].isArr THEN PrimEntry ELSE data.props[i].e]

\* variant: the wrapper keys are probed in the order results, data, incidents
ExtractIncidentsData_ResultsFirst(data) ==
  CASE data.k = "arr" -> [ok |-> TRUE, list |-> data.items]
    [] data.k = "null" -> [ok |-> FALSE, list |-> <<>>]
    [] data.k = "prim" -> [ok |-> TRUE, list |-> <<>>]
    [] OTHER ->
         IF HasArray(data, "results") THEN [ok |-> TRUE, list |-> GetArray(data, "results")]
         ELSE IF HasArray(data, "data") THEN [ok |-> TRUE, list |-> GetArray(data, "data")]
         ELSE IF HasArray(data, "incidents") THEN [ok |-> TRUE, list |-> GetArray(data, "incidents")]
         ELSE [ok |-> TRUE, list |-> ObjectValues(data)]

\* the payload shape detection: [ok, list]; ok = FALSE when a TypeError is
\* thrown (property read on null)
ExtractIncidentsData(data) ==
  CASE data.k = "arr" -> [ok |-> TRUE, list |-> data.items]
    [] data.k = "null" -> [ok |-> FALSE, list |-> <<>>]
    [] data.k = "prim" -> [ok |-> TRUE, list |-> <<>>]
    [] OTHER ->
         IF HasArray(data, "incidents") THEN [ok |-> TRUE, list |-> GetArray(data, "incidents")]
         ELSE IF HasArray(data, "data") THEN [ok |-> TRUE, list |-> GetArray(data, "data")]
         ELSE IF HasArray(data, "results") THEN [ok |-> TRUE, list |-> GetArray(data, "results")]
         ELSE [ok |-> TRUE, list |-> ObjectValues(data)]

\* the six canonical fields
CanonKeys == {"id", "timestamp", "incident_type", "user_id", "platform", "action"}

\* variant: the id chain starts at _id and is written after the spread
FormatIncident_IdNotCarried(incident, rid, now) ==
  LET f == incident.f
      canon ==
        [id |-> Or(f["_id"], Str(rid)),
         timestamp |-> Or(f["timestamp"], Or(f["date"], Or(f["created_at"], Str(now)))),
         incident_type |-> Or(f["incident_type"], Or(f["type"], Or(f["category"], Str("Unknown")))),
         user_id |-> Or(f["user_id"], Or(f["user"], Or(f["employee_id"], Str("N/A")))),
         platform |-> Or(f["platform"], Or(f["source"], Or(f["channel"], Str("Unknown")))),
         action |-> Or(f["action"], Or(f["response"], Str("NOTIFY")))]
  IN [x \in KEYS |->
        IF x = "id" THEN canon[x]
        ELSE IF f[x] # Undef THEN f[x]
        ELSE IF x \in CanonKeys THEN canon[x]
        ELSE Undef]

\* one step of incidentsData.map: the || chains, then ...incident on top
FormatIncident(incident, rid, now) ==
  LET f == incident.f
      canon ==
        [id |-> Or(f["id"], Or(f["_id"], Str(rid))),
         timestamp |-> Or(f["timestamp"], Or(f["date"], Or(f["created_at"], Str(now)))),
         incident_type |-> Or(f["incident_type"], Or(f["type"], Or(f["category"], Str("Unknown")))),
         user_id |-> Or(f["user_id"], Or(f["user"], Or(f["employee_id"], Str("N/A")))),
         platform |-> Or(f["platform"], Or(f["source"], Or(f["channel"], Str("Unknown")))),
         action |-> Or(f["action"], Or(f["response"], Str("NOTIFY")))]
  IN [x \in KEYS |->
        IF f[x] # Undef THEN f[x]
        ELSE IF x \in CanonKeys THEN canon[x]
        ELSE Undef]

\* the try block up to setIncidents: extraction, then map; a null element
\* makes the map callback throw
FormatIncidents(data, rids, now) ==
  LET ex == ExtractIncidentsData(data)
  IN IF ~ex.ok \/ \E i \in 1..Len(ex.list) : ex.list[i].k = "null"
     THEN [ok |-> FALSE, list |-> <<>>]
     ELSE [ok |-> TRUE,
           list |-> [i \in 1..Len(ex.list) |-> FormatIncident(ex.list[i], rids[i], now)]]

\* --------------------------------------------------------- sample inputs
E1 ==
  Obj("id" :> Num(1) @@ "timestamp" :> Str("2024-01-01T00:00:00Z")
      @@ "incident_type" :> Str("INN") @@ "user_id" :> Str("alice")
      @@ "platform" :> Str("telegram") @@ "action" :> Str("BLOCK"))
E2 ==
  Obj("id" :> Num(2) @@ "timestamp" :> Str("2024-01-02T00:00:00Z")
      @@ "incident_type" :> Str("Email") @@ "user_id" :> Str("bob")
      @@ "platform" :> Str("slack") @@ "action" :> Str("MASK"))
\* a second entry with the id of E2
E2b ==
  Obj("id" :> Num(2) @@ "timestamp" :> Str("2024-01-03T00:00:00Z")
      @@ "incident_type" :> Str("Phone") @@ "user_id" :> Str("bob")
      @@ "platform" :> Str("slack") @@ "action" :> Str("ALLOW"))
ENoId == Obj("type" :> Str("Phone") @@ "user" :> Str("carol"))

\* bodies the endpoint may answer with
Payloads ==
  {ArrBody(<<E1, E2>>),
   ObjBody(<<ArrProp("incidents", <<E2, E2b>>)>>),
   ArrBody(<<ENoId>>),
   ArrBody(<<>>),
   ArrBody(<<E1, NullEntry>>),
   NullBody}

\* rejections of axios.get: err.response?.data?.message and err.message
\* ("" stands for an absent or empty value)
AxiosError(respMsg, message) == [respMsg |-> respMsg, message |-> message]
Errors ==
  {AxiosError("Internal error", "Request failed with status code 500"),
   AxiosError("", "")}
\* what a property read on null throws
TypeError == AxiosError("", "Cannot read properties of null")

\* error === null
Null == "<null>"

\* err.response?.data?.message || err.message || fallback text
ErrorText(err) ==
  IF err.respMsg # "" THEN err.respMsg
  ELSE IF err.message # "" THEN err.message
  ELSE "Oshibka zagruzki dannyh"

SortKeys == {"timestamp", "incident_type", "user_id"}

\* ------------------------------------------------------------------ state
VARIABLES
  incidents,          \* useState([])
  loading,            \* useState(true)
  error,              \* useState(null)
  selectedIncidents,  \* useState(new Set())
  sortConfig,         \* useState({key: 'timestamp', direction: 'desc'})
  mounted,            \* the component instance is alive
  interval,           \* the setInterval handle is armed
  inflight,           \* axios.get promises not yet settled
  nextSeq,            \* issue number of the next fetch
  lastEvent,          \* the handler that ran last
  lastOk,             \* the fetch whose setIncidents ran last
  maxOkSeq,           \* highest issue number among the fetches that reached setIncidents
  everFailed          \* some fetch reached the catch block

vars ==
  <<incidents, loading, error, selectedIncidents, sortConfig, mounted,
    interval, inflight, nextSeq, lastEvent, lastOk, maxOkSeq, everFailed>>

store == <<incidents, loading, error, selectedIncidents, sortConfig>>
history == <<lastOk, maxOkSeq, everFailed>>

\* some fetch reached setIncidents
everSucceeded == maxOkSeq # 0

\* before and run are filled by toggleSelectAll only: the selection it found
\* and whether the handler before it was toggleSelectAll too (run = 2)
Event(kind, key) == [kind |-> kind, key |-> key, before |-> {}, run |-> 0]

Request(seq) == [seq |-> seq]

\* variant: the full-screen error branch is missing
ViewState_NoFullError ==
  IF loading /\ Len(incidents) = 0 THEN "spinner" ELSE "table"

\* which of the three return statements of the render function is taken
ViewState ==
  IF loading /\ Len(incidents) = 0 THEN "spinner"
  ELSE IF error # Null /\ Len(incidents) = 0 THEN "fullError"
  ELSE "table"

\* {error && <div className="error-banner">}
ErrorBanner == ViewState = "table" /\ error # Null

\* {loading && incidents.length > 0 && <div className="updating-indicator">}
UpdatingIndicator == ViewState = "table" /\ loading /\ Len(incidents) > 0

\* checked={selectedIncidents.has(incident.id)}
RowChecked(incident) == incident["id"] \in selectedIncidents

IdsOf(list) == {list[i]["id"] : i \in 1..Len(list)}

\* checked of the header checkbox: a comparison of two sizes
HeaderChecked ==
  Len(incidents) > 0 /\ Cardinality(selectedIncidents) = Len(incidents)

\* state after the first render and both mount effects: the initial fetch
\* is in flight and the 3 s interval is armed
Init ==
  /\ incidents = <<>>
  /\ loading = TRUE
  /\ error = Null
  /\ selectedIncidents = {}
  /\ sortConfig = [key |-> "timestamp", direction |-> "desc"]
  /\ mounted = TRUE
  /\ interval = TRUE
  /\ inflight = {Request(1)}
  /\ nextSeq = 2
  /\ lastEvent = Event("mount", "")
  /\ lastOk = [seq |-> 0, data |-> NullBody, rids |-> <<>>, now |-> ""]
  /\ maxOkSeq = 0
  /\ everFailed = FALSE

\* ------------------------------------------------------- fetchIncidents
\* the synchronous head of fetchIncidents: axios.get is issued
StartFetch(src) ==
  /\ nextSeq <= MaxFetches
  /\ inflight' = inflight \cup {Request(nextSeq)}
  /\ nextSeq' = nextSeq + 1
  /\ lastEvent' = Event(src, "")
  /\ UNCHANGED <<store, mounted, interval, history>>

\* setInterval callback
TimerTick ==
  /\ interval
  /\ StartFetch("timer")

\* refresh button of the table view (disabled={loading})
ManualRefresh ==
  /\ mounted
  /\ ViewState = "table"
  /\ ~loading
  /\ StartFetch("manual")

\* retry button of the full-screen error view
Retry ==
  /\ mounted
  /\ ViewState = "fullError"
  /\ StartFetch("retry")

\* variant: selection pruned to the ids of the new snapshot
ApplySuccess_Prunes(r, list) ==
  /\ incidents' = list
  /\ error' = Null
  /\ selectedIncidents' = selectedIncidents \cap IdsOf(list)
  /\ UNCHANGED sortConfig

\* variant: a completion issued before the last applied one is discarded
ApplySuccess_DiscardStale(r, list) ==
  /\ incidents' = IF r.seq < lastOk.seq THEN incidents ELSE list
  /\ error' = Null
  /\ UNCHANGED <<selectedIncidents, sortConfig>>

\* variant: the new snapshot is merged into the old one, the error stays
ApplySuccess_Merges(r, list) ==
  /\ incidents' =
       list \o SelectSeq(incidents, LAMBDA inc : inc["id"] \notin IdsOf(list))
  /\ UNCHANGED <<error, selectedIncidents, sortConfig>>

\* setIncidents(formattedIncidents); setError(null)
ApplySuccess(r, list) ==
  /\ incidents' = list
  /\ error' = Null
  /\ UNCHANGED <<selectedIncidents, sortConfig>>

\* variant: the list is cleared on error
ApplyCatch_ClearsList(err) ==
  /\ error' = ErrorText(err)
  /\ incidents' = <<>>
  /\ UNCHANGED <<selectedIncidents, sortConfig>>

\* catch (err): setError(...)
ApplyCatch(err) ==
  /\ error' = ErrorText(err)
  /\ UNCHANGED <<incidents, selectedIncidents, sortConfig>>

\* finally: setLoading(false)
Finally == loading' = FALSE

\* draws of Math.random for a body: one per extracted element that has
\* neither a truthy id nor a truthy _id; the others never evaluate it
RidChoices(data) ==
  LET ex == ExtractIncidentsData(data)
      needs(i) == ~Truthy(Or(ex.list[i].f["id"], ex.list[i].f["_id"]))
  IN {c \in [1..Len(ex.list) -> SynthIds] :
        \A i \in 1..Len(ex.list) : ~needs(i) => c[i] = "r4nd0m001"}

\* the promise of request r resolves with body data
CompleteResolved(r, data, rids, now) ==
  /\ mounted
  /\ r \in inflight
  /\ inflight' = inflight \ {r}
  /\ LET res == FormatIncidents(data, rids, now)
     IN IF res.ok
        THEN /\ ApplySuccess(r, res.list)
             /\ lastEvent' = Event("success", "")
             /\ lastOk' = [seq |-> r.seq, data |-> data, rids |-> rids, now |-> now]
             /\ maxOkSeq' = IF r.seq > maxOkSeq THEN r.seq ELSE maxOkSeq
             /\ UNCHANGED everFailed
        ELSE /\ ApplyCatch(TypeError)
             /\ lastEvent' = Event("throw", "")
             /\ everFailed' = TRUE
             /\ UNCHANGED <<lastOk, maxOkSeq>>
  /\ Finally
  /\ UNCHANGED <<mounted, interval, nextSeq>>

\* variant: a rejected request also clears the interval
CompleteRejected_StopsPolling(r, err) ==
  /\ mounted
  /\ r \in inflight
  /\ inflight' = inflight \ {r}
  /\ ApplyCatch(err)
  /\ Finally
  /\ lastEvent' = Event("failure", "")
  /\ everFailed' = TRUE
  /\ interval' = FALSE
  /\ UNCHANGED <<mounted, nextSeq, lastOk, maxOkSeq>>

\* the promise of request r rejects with err
CompleteRejected(r, err) ==
  /\ mounted
  /\ r \in inflight
  /\ inflight' = inflight \ {r}
  /\ ApplyCatch(err)
  /\ Finally
  /\ lastEvent' = Event("failure", "")
  /\ everFailed' = TRUE
  /\ UNCHANGED <<mounted, interval, nextSeq, lastOk, maxOkSeq>>

\* a promise settles after the component is gone: the setters have no
\* component state left to change
CompleteUnmounted(r) ==
  /\ ~mounted
  /\ r \in inflight
  /\ inflight' = inflight \ {r}
  /\ lastEvent' = Event("dropped", "")
  /\ UNCHANGED <<store, mounted, interval, nextSeq, history>>

\* ------------------------------------------------------------ user intents
\* variant: the direction is never flipped back
handleSort_AlwaysAsc(key) ==
  /\ mounted
  /\ ViewState = "table"
  /\ sortConfig' = [key |-> key, direction |-> "asc"]
  /\ lastEvent' = Event("sort", key)
  /\ UNCHANGED <<incidents, loading, error, selectedIncidents, mounted,
                 interval, inflight, nextSeq, history>>

handleSort(key) ==
  /\ mounted
  /\ ViewState = "table"
  /\ LET direction ==
           IF sortConfig.key = key /\ sortConfig.direction = "asc"
           THEN "desc" ELSE "asc"
     IN sortConfig' = [key |-> key, direction |-> direction]
  /\ lastEvent' = Event("sort", key)
  /\ UNCHANGED <<incidents, loading, error, selectedIncidents, mounted,
                 interval, inflight, nextSeq, history>>

toggleIncidentSelection(id) ==
  /\ mounted
  /\ ViewState = "table"
  /\ id \in IdsOf(incidents)
  /\ selectedIncidents' =
       IF id \in selectedIncidents
       THEN selectedIncidents \ {id}
       ELSE selectedIncidents \cup {id}
  /\ lastEvent' = Event("toggle", "")
  /\ UNCHANGED <<incidents, loading, error, sortConfig, mounted, interval,
                 inflight, nextSeq, history>>

\* what toggleSelectAll records about itself
ToggleAllEvent ==
  [Event("toggleAll", "") EXCEPT
     !.before = selectedIncidents,
     !.run = IF lastEvent.kind = "toggleAll" THEN 2 ELSE 1]

\* variant: every visible row is toggled on its own
toggleSelectAll_Inverts ==
  /\ mounted
  /\ ViewState = "table"
  /\ Len(incidents) # 0
  /\ selectedIncidents' =
       (selectedIncidents \ IdsOf(incidents)) \cup (IdsOf(incidents) \ selectedIncidents)
  /\ lastEvent' = ToggleAllEvent
  /\ UNCHANGED <<incidents, loading, error, sortConfig, mounted, interval,
                 inflight, nextSeq, history>>

\* header checkbox (disabled={incidents.length === 0})
toggleSelectAll ==
  /\ mounted
  /\ ViewState = "table"
  /\ Len(incidents) # 0
  /\ selectedIncidents' =
       IF Cardinality(selectedIncidents) = Len(incidents) /\ Len(incidents) > 0
       THEN {}
       ELSE IdsOf(incidents)
  /\ lastEvent' = ToggleAllEvent
  /\ UNCHANGED <<incidents, loading, error, sortConfig, mounted, interval,
                 inflight, nextSeq, history>>

\* ---------------------------------------------------------------- teardown
\* variant: the cleanup forgets clearInterval
Unmount_KeepsTimer ==
  /\ mounted
  /\ mounted' = FALSE
  /\ lastEvent' = Event("unmount", "")
  /\ UNCHANGED <<store, interval, inflight, nextSeq, history>>

\* cleanup of the polling effect: clearInterval(interval)
Unmount ==
  /\ mounted
  /\ mounted' = FALSE
  /\ interval' = FALSE
  /\ lastEvent' = Event("unmount", "")
  /\ UNCHANGED <<store, inflight, nextSeq, history>>

Next ==
  \/ TimerTick
  \/ ManualRefresh
  \/ Retry
  \/ \E r \in inflight, data \in Payloads :
       \E rids \in RidChoices(data), now \in NowStamps :
         CompleteResolved(r, data, rids, now)
  \/ \E r \in inflight, err \in Errors : CompleteRejected(r, err)
  \/ \E r \in inflight : CompleteUnmounted(r)
  \/ \E key \in SortKeys : handleSort(key)
  \/ \E id \in IdsOf(incidents) : toggleIncidentSelection(id)
  \/ toggleSelectAll
  \/ Unmount

Spec == Init /\ [][Next]_vars

\* ------------------------------------------------------------ sorted view
\* new Date(value).getTime() for the values the model uses: the ISO strings
\* by their day number, a number by itself, anything else Invalid Date
DateTable ==
  "2024-01-01T00:00:00Z" :> 1 @@ "2024-01-02T00:00:00Z" :> 2
  @@ "2024-01-03T00:00:00Z" :> 3 @@ "2024-03-01T00:00:00Z" :> 60

ParseDate(v) ==
  IF v.t = "num" THEN [nan |-> FALSE, ms |-> v.n]
  ELSE IF v.t = "str" /\ v.s \in DOMAIN DateTable THEN [nan |-> FALSE, ms |-> DateTable[v.s]]
  ELSE [nan |-> TRUE, ms |-> 0]

\* the strings of the sortable text columns in localeCompare order
Collation ==
  <<"", "alice", "bob", "carol", "Email", "INN", "N/A", "Other", "Phone",
    "Phone and Card", "Unknown", "U+0418,U+041D,U+041D">>

StrRank(x) == CHOOSE i \in 1..Len(Collation) : Collation[i] = x

Sign(x) == IF x < 0 THEN -1 ELSE IF x > 0 THEN 1 ELSE 0

\* ToNumber for the < and > of the last branch
ToNumber(v) ==
  IF v.t = "num" THEN [nan |-> FALSE, ms |-> v.n]
  ELSE IF v.t = "str" /\ v.s = "" THEN [nan |-> FALSE, ms |-> 0]
  ELSE [nan |-> TRUE, ms |-> 0]

\* the comparator passed to sort, as sort reads it: the sign of the
\* returned number, NaN read as 0
Compare(a, b, cfg) ==
  LET nz(v) == IF v.t \in {"undef", "null"} THEN Str("") ELSE v
      aValue == nz(a[cfg.key])
      bValue == nz(b[cfg.key])
      dateA == ParseDate(aValue)
      dateB == ParseDate(bValue)
      numA == ToNumber(aValue)
      numB == ToNumber(bValue)
      asc == cfg.direction = "asc"
  IN IF cfg.key = "timestamp"
     THEN IF dateA.nan \/ dateB.nan THEN 0
          ELSE IF asc THEN Sign(dateA.ms - dateB.ms) ELSE Sign(dateB.ms - dateA.ms)
     ELSE IF aValue.t = "str" /\ bValue.t = "str"
     THEN IF asc THEN Sign(StrRank(aValue.s) - StrRank(bValue.s))
          ELSE Sign(StrRank(bValue.s) - StrRank(aValue.s))
     ELSE IF numA.nan \/ numB.nan THEN 0
     ELSE IF asc THEN Sign(numA.ms - numB.ms) ELSE Sign(numB.ms - numA.ms)

\* variant: a row that compares equal to a row already placed is left out
InsertSorted_DropsTies(sorted, x, cfg) ==
  IF \E j \in 1..Len(sorted) : Compare(sorted[j], x, cfg) = 0
  THEN sorted
  ELSE LET after == {j \in 1..Len(sorted) : Compare(sorted[j], x, cfg) < 0}
           pos == IF after = {} THEN 0 ELSE CHOOSE j \in after : \A k \in after : k <= j
       IN SubSeq(sorted, 1, pos) \o <<x>> \o SubSeq(sorted, pos + 1, Len(sorted))

\* x is put behind the last element of the sorted prefix that does not
\* compare greater than x
InsertSorted(sorted, x, cfg) ==
  LET after == {j \in 1..Len(sorted) : Compare(sorted[j], x, cfg) <= 0}
      pos == IF after = {} THEN 0 ELSE CHOOSE j \in after : \A k \in after : k <= j
  IN SubSeq(sorted, 1, pos) \o <<x>> \o SubSeq(sorted, pos + 1, Len(sorted))

RECURSIVE SortList(_, _)
\* [...incidents].sort(comparator): a stable insertion of each row in turn
SortList(list, cfg) ==
  IF Len(list) = 0 THEN <<>>
  ELSE InsertSorted(SortList(SubSeq(list, 1, Len(list) - 1), cfg), list[Len(list)], cfg)

\* the rows of the table, in display order
sortedIncidents == SortList(incidents, sortConfig)

\* ------------------------------------------------------ severity of a row
\* the UTF-16 code units of the strings of the model; the last one is the
\* word of three Cyrillic capitals I, N, N
CodeUnits ==
  "" :> <<>>
  @@ "alice" :> <<97, 108, 105, 99, 101>>
  @@ "bob" :> <<98, 111, 98>>
  @@ "carol" :> <<99, 97, 114, 111, 108>>
  @@ "Email" :> <<69, 109, 97, 105, 108>>
  @@ "INN" :> <<73, 78, 78>>
  @@ "N/A" :> <<78, 47, 65>>
  @@ "Other" :> <<79, 116, 104, 101, 114>>
  @@ "Phone" :> <<80, 104, 111, 110, 101>>
  @@ "Phone and Card" :> <<80, 104, 111, 110, 101, 32, 97, 110, 100, 32, 67, 97, 114, 100>>
  @@ "Unknown" :> <<85, 110, 107, 110, 111, 119, 110>>
  @@ "U+0418,U+041D,U+041D" :> <<1048, 1053, 1053>>

\* toLowerCase on one code unit: Latin and Cyrillic capitals have a small form
ToLowerUnit(c) ==
  IF c >= 65 /\ c <= 90 THEN c + 32
  ELSE IF c >= 1040 /\ c <= 1071 THEN c + 32
  ELSE IF c >= 1024 /\ c <= 1039 THEN c + 80
  ELSE c

toLowerCase(u) == [i \in 1..Len(u) |-> ToLowerUnit(u[i])]

\* String.prototype.includes
includes(u, kw) ==
  \E off \in 0..(Len(u) - Len(kw)) : \A k \in 1..Len(kw) : u[off + k] = kw[k]

RECURSIVE Digits(_)
\* the decimal digits of a non-negative integer
Digits(n) == IF n < 10 THEN <<48 + n>> ELSE Digits(n \div 10) \o <<48 + (n % 10)>>

\* incidentType.toString() of a truthy string or number
toString(v) == IF v.t = "str" THEN CodeUnits[v.s] ELSE Digits(v.n)

\* the six keywords of the first test, in code units: the Cyrillic words for
\* taxpayer number, insurance number, bank (adjective) and card, then
\* credit and card
HighKeywords ==
  {<<1080, 1085, 1085>>,
   <<1089, 1085, 1080, 1083, 1089>>,
   <<1073, 1072, 1085, 1082, 1086, 1074, 1089, 1082, 1072, 1103>>,
   <<1082, 1072, 1088, 1090, 1072>>,
   <<99, 114, 101, 100, 105, 116>>,
   <<99, 97, 114, 100>>}

\* the four keywords of the second test: email, the Cyrillic words for
\* mail and telephone, phone
MediumKeywords ==
  {<<101, 109, 97, 105, 108>>,
   <<1087, 1086, 1095, 1090, 1072>>,
   <<1090, 1077, 1083, 1077, 1092, 1086, 1085>>,
   <<112, 104, 111, 110, 101>>}

\* variant: the type is matched as written, without toLowerCase
getSeverityClass_CaseSensitive(incidentType) ==
  IF ~Truthy(incidentType) THEN "low"
  ELSE LET typeStr == toString(incidentType)
       IN IF \E kw \in HighKeywords : includes(typeStr, kw) THEN "high"
          ELSE IF \E kw \in MediumKeywords : includes(typeStr, kw) THEN "medium"
          ELSE "low"

getSeverityClass(incidentType) ==
  IF ~Truthy(incidentType) THEN "low"
  ELSE LET typeStr == toLowerCase(toString(incidentType))
       IN IF \E kw \in HighKeywords : includes(typeStr, kw) THEN "high"
          ELSE IF \E kw \in MediumKeywords : includes(typeStr, kw) THEN "medium"
          ELSE "low"

\* the class of the severity badge of every row of the table
RowSeverity == [i \in 1..Len(sortedIncidents) |->
                 getSeverityClass(sortedIncidents[i]["incident_type"])]

\* ------------------------------------------------ bodies of varied shape
\* an entry whose canonical names hold null and a number, with an _id
EBadTypes ==
  Obj("id" :> JsNull @@ "_id" :> Num(3) @@ "timestamp" :> Str("2024-01-01T00:00:00Z")
      @@ "incident_type" :> JsNull @@ "user_id" :> Num(42))
\* the entry of the normalisation example: alternates only
E7 == Obj("_id" :> Num(7) @@ "date" :> Str("2024-01-01T00:00:00Z"))
\* no id at all, and a property the normaliser does not know
ENote == Obj("category" :> Str("Phone") @@ "employee_id" :> Str("carol")
             @@ "channel" :> Str("telegram") @@ "response" :> Str("BLOCK")
             @@ "created_at" :> Str("2024-01-03T00:00:00Z") @@ "note" :> Str("memo"))
\* a timestamp new Date cannot parse
EBadTs ==
  Obj("id" :> Num(4) @@ "timestamp" :> Str("not-a-date")
      @@ "incident_type" :> Str("Email") @@ "user_id" :> Str("carol"))

\* entries whose types are the Cyrillic capitals, a text with a keyword of
\* each test, a text with none, and a number
EInnRu ==
  Obj("id" :> Num(5) @@ "timestamp" :> Str("2024-01-01T00:00:00Z")
      @@ "incident_type" :> Str("U+0418,U+041D,U+041D") @@ "user_id" :> Str("alice"))
EBoth ==
  Obj("id" :> Num(6) @@ "timestamp" :> Str("2024-01-02T00:00:00Z")
      @@ "incident_type" :> Str("Phone and Card") @@ "user_id" :> Str("bob"))
EOther ==
  Obj("id" :> Num(8) @@ "timestamp" :> Str("2024-01-03T00:00:00Z")
      @@ "incident_type" :> Str("Other") @@ "user_id" :> Str("carol"))
ENumType ==
  Obj("id" :> Num(9) @@ "timestamp" :> Str("2024-01-03T00:00:00Z")
      @@ "incident_type" :> Num(42) @@ "user_id" :> Str("carol"))

\* sequences of entries that each carry an id and a timestamp
EntrySeqs == {<<E1, E2>>, <<E2, E1>>}

Shapes == {"array", "incidents", "data", "results", "object"}

\* names of the properties of an object keyed by something else
PlainKeys == <<"first", "second", "third">>

\* the body that carries the entries es in the given shape
Shape(kind, es) ==
  CASE kind = "array" -> ArrBody(es)
    [] kind = "object" -> ObjBody([i \in 1..Len(es) |-> ValProp(PlainKeys[i], es[i])])
    [] OTHER -> ObjBody(<<ArrProp(kind, es)>>)

\* bodies with several wrapper arrays, and the array that has to win
MultiBodies ==
  {[data |-> ObjBody(<<ArrProp("results", <<E1>>), ArrProp("data", <<E2>>),
                       ArrProp("incidents", <<E1, E2>>)>>),
    first |-> <<E1, E2>>],
   [data |-> ObjBody(<<ArrProp("results", <<E1>>), ArrProp("data", <<E2>>)>>),
    first |-> <<E2>>]}

\* {}, a primitive, {message: 'ok'}, {total: 0, items: []}
UnrecognizedBodies ==
  {ObjBody(<<>>),
   PrimBody,
   ObjBody(<<ValProp("message", PrimEntry)>>),
   ObjBody(<<ValProp("total", PrimEntry), ArrProp("items", <<>>)>>)}

DataPayloads ==
  {Shape(kind, es) : kind \in Shapes, es \in EntrySeqs}
  \cup {b.data : b \in MultiBodies}
  \cup UnrecognizedBodies
  \cup {ArrBody(<<EBadTypes, E7>>), ArrBody(<<ENote, PrimEntry>>),
        ArrBody(<<E1, EBadTs>>), ArrBody(<<EBadTs, E1>>),
        ArrBody(<<EInnRu, EBoth, EOther, ENumType>>)}

\* the component fed with bodies of every shape: polling, completions and
\* sort activations only
NextData ==
  \/ TimerTick
  \/ \E r \in inflight, data \in DataPayloads :
       \E rids \in RidChoices(data), now \in NowStamps :
         CompleteResolved(r, data, rids, now)
  \/ \E key \in SortKeys : handleSort(key)

SpecData == Init /\ [][NextData]_vars

\* ------------------------------------------------- polling without end
\* the setInterval callback of a component that stays mounted: the number
\* of a request that has settled is used again, so that ticks never run
\* out; at most MaxFetches requests are pending at once
TimerTickAgain ==
  /\ interval
  /\ \E s \in 1..MaxFetches :
       /\ Request(s) \notin inflight
       /\ \A t \in 1..(s - 1) : Request(t) \in inflight
       /\ inflight' = inflight \cup {Request(s)}
  /\ lastEvent' = Event("timer", "")
  /\ UNCHANGED <<store, mounted, interval, nextSeq, history>>

\* the bodies the polled endpoint answers with: two rows, no rows, null
PollPayloads == {ArrBody(<<E1, E2>>), ArrBody(<<>>), NullBody}

\* a pending request resolves with a body that is stored
FetchSucceeds ==
  \E r \in inflight, data \in PollPayloads :
    \E rids \in RidChoices(data), now \in NowStamps :
      /\ CompleteResolved(r, data, rids, now)
      /\ lastEvent'.kind = "success"

NextPoll ==
  \/ TimerTickAgain
  \/ \E r \in inflight, data \in PollPayloads :
       \E rids \in RidChoices(data), now \in NowStamps :
         CompleteResolved(r, data, rids, now)
  \/ \E r \in inflight, err \in Errors : CompleteRejected(r, err)
  \/ \E r \in inflight : CompleteUnmounted(r)
  \/ Unmount

\* setInterval runs its callback every 3 s for as long as it is armed
SpecPoll == Init /\ [][NextPoll]_vars /\ WF_vars(TimerTickAgain)

\* ------------------------------------------------------------ properties
InitialSort == [key |-> "timestamp", direction |-> "desc"]

\* C1: a fetch that completes with a transport failure leaves the stored
\* list, the selection set and the sort configuration as they were and
\* records a non-empty error message.
C1_FailureKeepsStore ==
  [][lastEvent'.kind = "failure" =>
       /\ incidents' = incidents
       /\ selectedIncidents' = selectedIncidents
       /\ sortConfig' = sortConfig
       /\ error' # Null
       /\ error' # ""]_vars

\* a transport failure arrived while a non-empty list, a selection and a
\* non-default sort were in place
C1_Witness ==
  /\ lastEvent.kind = "failure"
  /\ Len(incidents) > 0
  /\ selectedIncidents # {}
  /\ sortConfig # InitialSort

\* C2: a successful poll leaves the selection set and the sort configuration
\* unchanged, and every row of the new snapshot whose id is selected is
\* shown as checked.
C2_PollKeepsSelection ==
  [][lastEvent'.kind = "success" =>
       /\ selectedIncidents' = selectedIncidents
       /\ sortConfig' = sortConfig
       /\ \A id \in selectedIncidents : id \in selectedIncidents'
       /\ \A i \in 1..Len(incidents') :
            incidents'[i]["id"] \in selectedIncidents =>
              incidents'[i]["id"] \in selectedIncidents']_vars

\* after a poll, one selected id is still in the snapshot and another is not
C2_Witness ==
  /\ lastEvent.kind = "success"
  /\ \E id \in selectedIncidents : id \in IdsOf(incidents)
  /\ \E id \in selectedIncidents : id \notin IdsOf(incidents)

\* C3: once some fetch succeeded, the stored list is the normalised payload
\* of the successful fetch that completed last, whatever its issue number.
C3_LastCompletedWins ==
  everSucceeded =>
    incidents = FormatIncidents(lastOk.data, lastOk.rids, lastOk.now).list

\* the fetch applied last was issued before one that had already been applied
C3_Witness ==
  /\ lastEvent.kind = "success"
  /\ lastOk.seq < maxOkSeq
  /\ Len(incidents) > 0

\* C4: at most one fetch request is in flight at any time.
C4_SingleFlight == Cardinality(inflight) <= 1

\* C5: while a fetch is in flight the loading state is true.
C5_LoadingWhileInFlight == (mounted /\ inflight # {}) => loading

\* C6: a successful completion installs exactly the normalisation of its
\* payload, element by element, and clears the recorded error.
C6_SuccessReplacesSnapshot ==
  [][lastEvent'.kind = "success" =>
       LET raw == ExtractIncidentsData(lastOk'.data).list
       IN /\ Len(incidents') = Len(raw)
          /\ \A i \in 1..Len(raw) :
               incidents'[i] = FormatIncident(raw[i], lastOk'.rids[i], lastOk'.now)
          /\ error' = Null]_vars

\* a success after an earlier failure: the error is gone and the list is
\* the new non-empty snapshot
C6_Witness ==
  /\ lastEvent.kind = "success"
  /\ everFailed
  /\ lastOk.seq >= 2
  /\ error = Null
  /\ Len(incidents) > 0

\* C7: after at least one successful poll, a failing poll leaves the table
\* state with the error banner shown.
C7_FailureAfterSuccessShowsTable ==
  (everSucceeded /\ lastEvent.kind = "failure") =>
    (ViewState = "table" /\ ErrorBanner)

\* C8: a fetch has failed, none has succeeded and loading has ended: the
\* view is the full-screen error state.
C8_FullScreenError ==
  (everFailed /\ ~everSucceeded /\ ~loading) => ViewState = "fullError"

\* the first completion was a failure and the component is still mounted
C8_Witness ==
  /\ everFailed
  /\ ~everSucceeded
  /\ ~loading
  /\ mounted
  /\ error # Null

\* C9: after teardown the interval is disarmed, no timer tick fires and no
\* fetch is started.
C9_NoTickAfterTeardown ==
  /\ [](~mounted => ~interval)
  /\ [][~mounted => (lastEvent'.kind # "timer" /\ inflight' \subseteq inflight)]_vars

\* a step was taken after teardown (a pending fetch settled)
C9_Witness ==
  /\ ~mounted
  /\ lastEvent.kind = "dropped"

\* setSort as the data model states it
SetSortRule(cfg, key) ==
  IF cfg.key = key
  THEN [key |-> key,
        direction |-> IF cfg.direction = "asc" THEN "desc" ELSE "asc"]
  ELSE [key |-> key, direction |-> "asc"]

\* C10: SortConfig starts at {timestamp, desc}; a sort activation on the
\* current key flips the direction, on another key sets {key, asc}; no
\* other event changes it; its key is one of the three sortable columns.
C10_SortConfigLifecycle ==
  /\ sortConfig = InitialSort
  /\ [](sortConfig.key \in SortKeys /\ sortConfig.direction \in {"asc", "desc"})
  /\ [][IF lastEvent'.kind = "sort"
        THEN sortConfig' = SetSortRule(sortConfig, lastEvent'.key)
        ELSE sortConfig' = sortConfig]_vars

\* another column was chosen and then activated a second time
C10_Witness ==
  /\ lastEvent.kind = "sort"
  /\ sortConfig = [key |-> "user_id", direction |-> "desc"]

\* no id occurs in two rows of the list
DistinctIds(list) ==
  \A i, j \in 1..Len(list) : list[i]["id"] = list[j]["id"] => i = j

\* C11: toggleSelectAll sets the selection to exactly the ids of the current
\* list when some visible id is not selected, and to the empty set when
\* every visible id is selected.
C11_ToggleAllByMembership ==
  [][lastEvent'.kind = "toggleAll" =>
       selectedIncidents' =
         IF IdsOf(incidents) \subseteq selectedIncidents
         THEN {}
         ELSE IdsOf(incidents)]_vars

\* C12 as stated: two consecutive toggleSelectAll invocations on an unchanged
\* list return the selection to its value before the first one.
C12_DoubleToggleRestores ==
  [][(lastEvent.kind = "toggleAll" /\ lastEvent'.kind = "toggleAll") =>
       selectedIncidents' = lastEvent.before]_vars

\* C12 amended: two consecutive toggleSelectAll invocations return the
\* selection to its value before the first one exactly when that value was
\* the set of ids of the list, or was empty and no id occurs twice in the list.
C12_DoubleToggleRestoresIff ==
  [][(lastEvent.kind = "toggleAll" /\ lastEvent'.kind = "toggleAll") =>
       (selectedIncidents' = lastEvent.before
          <=> \/ lastEvent.before = IdsOf(incidents)
              \/ lastEvent.before = {} /\ DistinctIds(incidents))]_vars

\* the second of two consecutive invocations has restored a full selection
C12_Witness ==
  /\ lastEvent.kind = "toggleAll"
  /\ lastEvent.run = 2
  /\ lastEvent.before = {}
  /\ selectedIncidents = IdsOf(incidents)
  /\ Len(incidents) > 1

\* C13: in every stored snapshot the id values are pairwise distinct.
C13_UniqueIds == DistinctIds(incidents)

\* C15: a body that was retrieved successfully never ends in the catch
\* block: no error is recorded for it.
C15_ResolvedNeverFails ==
  [][lastEvent'.kind \in {"success", "throw"} =>
       (lastEvent'.kind = "success" /\ error' = Null)]_vars

\* ----------------------------------------------- normaliser properties
TextFields == {"incident_type", "user_id", "action", "platform"}

\* C14: in every stored record incident_type, user_id, action and platform
\* are strings.
C14_TextFieldsAreStrings ==
  \A i \in 1..Len(incidents) : \A k \in TextFields : incidents[i][k].t = "str"

\* the priority list of upstream names of each canonical field
Priority ==
  [id |-> <<"id", "_id">>,
   timestamp |-> <<"timestamp", "date", "created_at">>,
   incident_type |-> <<"incident_type", "type", "category">>,
   user_id |-> <<"user_id", "user", "employee_id">>,
   platform |-> <<"platform", "source", "channel">>,
   action |-> <<"action", "response">>]

\* the fixed defaults; id and timestamp are synthesised instead
Defaults ==
  [incident_type |-> "Unknown", user_id |-> "N/A", platform |-> "Unknown",
   action |-> "NOTIFY"]

\* the first populated candidate of a priority list, Undef when there is none
FirstPopulated(f, names) ==
  LET hits == {i \in 1..Len(names) : Truthy(f[names[i]])}
  IN IF hits = {} THEN Undef
     ELSE f[names[CHOOSE i \in hits : \A j \in hits : i <= j]]

\* C16: each canonical field of a stored record is the first populated
\* candidate of its priority list in the raw entry, and the field's default
\* when no candidate is populated.
C16_FirstPopulatedCandidate ==
  everSucceeded =>
    LET raw == ExtractIncidentsData(lastOk.data).list
    IN /\ Len(incidents) = Len(raw)
       /\ \A i \in 1..Len(raw) : \A k \in CanonKeys :
            LET fp == FirstPopulated(raw[i].f, Priority[k])
            IN IF fp # Undef THEN incidents[i][k] = fp
               ELSE k \in DOMAIN Defaults => incidents[i][k] = Str(Defaults[k])

\* the records of a sequence of entries that carry their own id and timestamp
CanonicalOf(es) ==
  [i \in 1..Len(es) |-> FormatIncident(es[i], "r4nd0m001", "2024-03-01T00:00:00Z")]

\* C17: the same entries give the same records in each of the five body
\* shapes, and with several wrapper arrays the first of incidents, data,
\* results is the one used.
C17_ShapesAgree ==
  everSucceeded =>
    /\ \A kind \in Shapes, es \in EntrySeqs :
         lastOk.data = Shape(kind, es) => incidents = CanonicalOf(es)
    /\ \A b \in MultiBodies :
         lastOk.data = b.data => incidents = CanonicalOf(b.first)

\* an object keyed by other names has been normalised to its two entries
C17_Witness ==
  /\ lastEvent.kind = "success"
  /\ lastOk.data = Shape("object", <<E2, E1>>)
  /\ Len(incidents) = 2
  /\ incidents[1]["id"] = Num(2)

\* C18: an empty or unrecognised body leaves a stored list of length 0.
C18_UnrecognisedIsEmpty ==
  (everSucceeded /\ lastOk.data \in UnrecognizedBodies) => Len(incidents) = 0

\* C19: normalising a stored record again gives the same record, field by
\* field, whatever Math.random and the clock would supply.
C19_Idempotent ==
  \A i \in 1..Len(incidents) :
    \A rid \in SynthIds, now \in NowStamps \cup {"2024-01-03T00:00:00Z"} :
      FormatIncident(Obj(incidents[i]), rid, now) = incidents[i]

\* a stored record with a synthesised id and a retained extra field
C19_Witness ==
  \E i \in 1..Len(incidents) :
    /\ incidents[i]["id"].s \in SynthIds
    /\ incidents[i]["note"] = Str("memo")
    /\ incidents[i]["incident_type"] = Str("Phone")

\* new Date(timestamp) of a stored record is Invalid Date
Unparsable(inc) ==
  ParseDate(IF inc["timestamp"].t \in {"undef", "null"} THEN Str("") ELSE inc["timestamp"]).nan

\* C20: under a timestamp sort every row with an unparsable timestamp comes
\* before every valid one in ascending order and after it in descending order.
C20_UnparsableIsOldest ==
  sortConfig.key = "timestamp" =>
    \A i, j \in 1..Len(sortedIncidents) :
      (Unparsable(sortedIncidents[i]) /\ ~Unparsable(sortedIncidents[j])) =>
        IF sortConfig.direction = "asc" THEN i < j ELSE i > j

\* the stored rows, each carrying its position in the stored list
Tagged(list) ==
  [i \in 1..Len(list) |->
     [k \in DOMAIN list[i] \cup {"#"} |-> IF k = "#" THEN Num(i) ELSE list[i][k]]]

\* the stored positions in the order the view under cfg shows them
Order(list, cfg) ==
  LET s == SortList(Tagged(list), cfg)
  IN [p \in 1..Len(list) |-> s[p]["#"].n]

\* the place of stored row i in an order
Pos(order, i) == CHOOSE p \in 1..Len(order) : order[p] = i

\* C21: for every sort key, two rows with equal keys keep their stored
\* order in the view under both directions, and two rows with unequal keys
\* stand in opposite orders under the two directions.
C21_StableAndInverting ==
  \A key \in SortKeys :
    LET up == Order(incidents, [key |-> key, direction |-> "asc"])
        down == Order(incidents, [key |-> key, direction |-> "desc"])
    IN \A i, j \in 1..Len(incidents) :
         i < j =>
           IF incidents[i][key] = incidents[j][key]
           THEN Pos(up, i) < Pos(up, j) /\ Pos(down, i) < Pos(down, j)
           ELSE (Pos(up, i) < Pos(up, j)) # (Pos(down, i) < Pos(down, j))

Reverse(s) == [i \in 1..Len(s) |-> s[Len(s) + 1 - i]]

\* C22: when the timestamps of the stored list are pairwise distinct, the
\* view by ascending timestamp is the reverse of the view by descending
\* timestamp.
C22_AscIsReverseOfDesc ==
  (\A i, j \in 1..Len(incidents) :
     i # j => incidents[i]["timestamp"] # incidents[j]["timestamp"])
  => SortList(incidents, [key |-> "timestamp", direction |-> "asc"])
       = Reverse(SortList(incidents, [key |-> "timestamp", direction |-> "desc"]))

\* C26: the header checkbox is shown checked only when the list is not
\* empty and every row of the list is selected.
C26_HeaderCheckedMeansAllSelected ==
  HeaderChecked => (Len(incidents) > 0 /\ IdsOf(incidents) \subseteq selectedIncidents)

\* how many rows of a list are the record r
Count(list, r) == Cardinality({i \in 1..Len(list) : list[i] = r})

\* C23: the view always holds exactly the stored rows, none dropped and
\* none duplicated, with no adjacent pair out of order under the current
\* sort configuration; and only a fetch that stores its snapshot changes
\* the stored list or its order: no sort activation, selection change,
\* failure, timer tick or teardown does.
C23_ViewIsPureDerivation ==
  /\ [](/\ Len(sortedIncidents) = Len(incidents)
        /\ \A i \in 1..Len(incidents) :
             Count(sortedIncidents, incidents[i]) = Count(incidents, incidents[i])
        /\ \A p \in 1..(Len(sortedIncidents) - 1) :
             Compare(sortedIncidents[p], sortedIncidents[p + 1], sortConfig) <= 0)
  /\ [][lastEvent'.kind # "success" => incidents' = incidents]_vars

\* a sort activation has just reordered the view of a list of several rows
\* and the stored list is still in its arrival order
C23_Witness ==
  /\ lastEvent.kind = "sort"
  /\ Len(incidents) > 1
  /\ sortedIncidents # incidents

\* u holds the keyword kw somewhere, letter case disregarded
ContainsAnyCase(u, kw) ==
  \E off \in 0..(Len(u) - Len(kw)) :
    \A k \in 1..Len(kw) : ToLowerUnit(u[off + k]) = ToLowerUnit(kw[k])

\* the tier the keyword sets assign to a type value
TierOf(v) ==
  IF v.t # "str" THEN "low"
  ELSE IF \E kw \in HighKeywords : ContainsAnyCase(CodeUnits[v.s], kw) THEN "high"
  ELSE IF \E kw \in MediumKeywords : ContainsAnyCase(CodeUnits[v.s], kw) THEN "medium"
  ELSE "low"

\* C24: every row gets a class; a type string that holds a high keyword in
\* any letter case is high even if it also holds a medium keyword, else one
\* that holds a medium keyword is medium, and every other value, an absent
\* type included, is low; the three Cyrillic capitals, Email and Other are
\* high, medium and low.
C24_SeverityByFirstTier ==
  /\ \A i \in 1..Len(sortedIncidents) :
       RowSeverity[i] = TierOf(sortedIncidents[i]["incident_type"])
  /\ getSeverityClass(Str("U+0418,U+041D,U+041D")) = "high"
  /\ getSeverityClass(Str("Email")) = "medium"
  /\ getSeverityClass(Str("Other")) = "low"
  /\ getSeverityClass(Undef) = "low"
  /\ getSeverityClass(JsNull) = "low"

\* the table shows a row whose type holds a medium and a high keyword, in
\* capitals, as high, next to a row of Cyrillic capitals and a row whose
\* type is a number
C24_Witness ==
  /\ \E i \in 1..Len(sortedIncidents) :
       /\ sortedIncidents[i]["incident_type"] = Str("Phone and Card")
       /\ RowSeverity[i] = "high"
  /\ \E i \in 1..Len(sortedIncidents) :
       /\ sortedIncidents[i]["incident_type"] = Str("U+0418,U+041D,U+041D")
       /\ RowSeverity[i] = "high"
  /\ \E i \in 1..Len(sortedIncidents) :
       /\ sortedIncidents[i]["incident_type"].t = "num"
       /\ RowSeverity[i] = "low"

\* C25: after a fetch has failed, the timer issues a further fetch unless
\* the component is unmounted first; and provided pending fetches succeed
\* again and again whenever there are some, a recorded error is eventually
\* cleared, with the fresh snapshot stored, or the component is unmounted.
C25_FailureIsNotAbsorbing ==
  /\ (lastEvent.kind \in {"failure", "throw"})
       ~> (lastEvent.kind = "timer" \/ ~mounted)
  /\ SF_vars(FetchSucceeds)
       => ((error # Null /\ mounted)
             ~> ((error = Null /\ lastEvent.kind = "success") \/ ~mounted))

\* a fetch issued by the timer after a failure has stored its snapshot and
\* cleared the error
C25_Witness ==
  /\ everFailed
  /\ mounted
  /\ lastEvent.kind = "success"
  /\ error = Null
  /\ Len(incidents) > 0

====
